---- MODULE Spec2Model ----
(***************************************************************************)
(* A model of rkafka: the binary codec layer (varints, compact strings,    *)
(* compact arrays, the request header), the two per-request codecs, the    *)
(* dispatcher of handler.rs and the per-connection loop of main.rs.        *)
(*                                                                         *)
(* Bytes are naturals 0..255 and buffers are sequences of bytes.  A u64 is *)
(* the set of its set bit positions (a subset of 0..63), so that the full  *)
(* 64-bit width is kept without integers beyond the checker's range.       *)
(* Results of fallible functions are records with a tag field: "Ok",       *)
(* "Err" (an Err(..) value) or "Panic" (the thread unwinds).               *)
(***************************************************************************)
EXTENDS Integers, Sequences, FiniteSets, TLC

VARIABLES
    overflow_checks, \* build profile: TRUE = arithmetic overflow panics (debug)
    pc,              \* position of the call under study / of each task
    arg,             \* input of the function-level call under study
    ret,             \* its result
    file,            \* content of supported_versions.json
    tasks,           \* per connection: the state of its spawned task
    inbox,           \* per connection: chunks sent by the client, not yet read
    outbox,          \* per connection: byte strings written to the socket
    log              \* per connection: history of request cycles

vars == <<overflow_checks, pc, arg, ret, file, tasks, inbox, outbox, log>>

None == [tag |-> "None"]

(***************************************************************************)
(* Bounds of the model.                                                    *)
(***************************************************************************)
\* longest run of continuation bytes tried on decode_varint
MaxCont == 11
\* longest buffer enumerated byte by byte
MaxFree == 3
\* most elements of a well-formed compact array
MaxElems == 3
\* most chunks the clients send, all connections together
MaxSent == 3

(***************************************************************************)
(* Bytes, bits and fixed-width integers.                                   *)
(***************************************************************************)
RECURSIVE Pow2(_)
Pow2(n) == IF n = 0 THEN 1 ELSE 2 * Pow2(n - 1)

\* the bit positions set in a small natural (n < 2^30)
NatToBits(n) == {i \in 0..29 : (n \div Pow2(i)) % 2 = 1}

\* the natural whose set bits are those of S below position w (w <= 30)
RECURSIVE BitsToNat(_, _)
BitsToNat(S, w) ==
    IF w = 0 THEN 0
    ELSE BitsToNat(S, w - 1) + (IF (w - 1) \in S THEN Pow2(w - 1) ELSE 0)

\* a u64 that fits 30 bits
U64Small(S) == \A i \in S : i < 30
\* u64 > n, for a small natural n
U64Gt(S, n) == IF U64Small(S) THEN BitsToNat(S, 30) > n ELSE TRUE

\* n times the byte b
Repeat(b, n) == [i \in 1..n |-> b]

\* the sequences over S of length at most n
RECURSIVE SeqsUpTo(_, _)
SeqsUpTo(S, n) ==
    IF n = 0 THEN {<<>>}
    ELSE LET shorter == SeqsUpTo(S, n - 1)
         IN  shorter \cup {Append(s, b) : s \in shorter, b \in S}

SubSeqFrom(s, from0) == SubSeq(s, from0 + 1, Len(s))
\* s[a..b) with 0-based bounds, as a Rust slice
Slice(s, a, b) == SubSeq(s, a + 1, b)

(***************************************************************************)
(* decode_varint and encode_zigzag (protocol/types/mod.rs).                *)
(***************************************************************************)
Ok2(v, n) == [tag |-> "Ok", value |-> v, len |-> n]
Err(e) == [tag |-> "Err", err |-> e]
Panic(why) == [tag |-> "Panic", why |-> why]

\* u64::from(b) << shift, for shift < 64: bits shifted out at the top are lost
U64Shl(b, shift) == {j + shift : j \in NatToBits(b)} \cap (0..63)

\* as varint_loop, but an eleventh byte is accepted before the shift check trips
RECURSIVE varint_loop_late(_, _, _, _)
varint_loop_late(data, value, shift, i) ==
    IF ~(i < Len(data)) THEN Err("InvalidVarint")
    ELSE LET byte == data[i + 1]
             value2 == value \cup U64Shl(byte % 128, shift)
         IN  IF byte \div 128 = 0 THEN Ok2(value2, i + 1)
             ELSE IF shift + 7 >= 71 THEN Err("InvalidVarint")
             ELSE varint_loop_late(data, value2, shift + 7, i + 1)

\* as varint_loop, but the shift check is made before the terminator check
RECURSIVE varint_loop_early(_, _, _, _)
varint_loop_early(data, value, shift, i) ==
    IF ~(i < Len(data)) THEN Err("InvalidVarint")
    ELSE LET byte == data[i + 1]
             value2 == value \cup U64Shl(byte % 128, shift)
         IN  IF shift + 7 >= 64 THEN Err("InvalidVarint")
             ELSE IF byte \div 128 = 0 THEN Ok2(value2, i + 1)
             ELSE varint_loop_early(data, value2, shift + 7, i + 1)

RECURSIVE varint_loop(_, _, _, _)
varint_loop(data, value, shift, i) ==
    IF ~(i < Len(data)) THEN Err("InvalidVarint")
    ELSE LET byte == data[i + 1]
             value2 == value \cup U64Shl(byte % 128, shift)
             shift2 == shift + 7
             i2 == i + 1
         IN  IF byte \div 128 = 0 THEN Ok2(value2, i2)
             ELSE IF shift2 >= 64 THEN Err("InvalidVarint")
             ELSE varint_loop(data, value2, shift2, i2)

decode_varint(data) == varint_loop(data, {}, 0, 0)

U64Shr7(S) == {i - 7 : i \in {j \in S : j >= 7}}

RECURSIVE zigzag_loop(_, _)
zigzag_loop(value, result) ==
    IF \E i \in value : i >= 7
    THEN zigzag_loop(U64Shr7(value), Append(result, BitsToNat(value, 7) + 128))
    ELSE Append(result, BitsToNat(value, 8))

encode_zigzag(value) == zigzag_loop(value, <<>>)

(***************************************************************************)
(* UTF-8 validation as str::from_utf8 / String::from_utf8 perform it.      *)
(***************************************************************************)
IsCont(b) == b >= 128 /\ b <= 191

RECURSIVE IsUtf8(_)
IsUtf8(bs) ==
    IF \A i \in 1..Len(bs) : bs[i] < 128 THEN TRUE
    ELSE LET b == bs[1]
             n == Len(bs)
         IN  IF b < 128 THEN IsUtf8(Tail(bs))
             ELSE IF b >= 194 /\ b <= 223
                  THEN n >= 2 /\ IsCont(bs[2]) /\ IsUtf8(SubSeq(bs, 3, n))
             ELSE IF b >= 224 /\ b <= 239
                  THEN /\ n >= 3
                       /\ IsCont(bs[2]) /\ IsCont(bs[3])
                       /\ (b = 224 => bs[2] >= 160)
                       /\ (b = 237 => bs[2] <= 159)
                       /\ IsUtf8(SubSeq(bs, 4, n))
             ELSE IF b >= 240 /\ b <= 244
                  THEN /\ n >= 4
                       /\ IsCont(bs[2]) /\ IsCont(bs[3]) /\ IsCont(bs[4])
                       /\ (b = 240 => bs[2] >= 144)
                       /\ (b = 244 => bs[2] <= 143)
                       /\ IsUtf8(SubSeq(bs, 5, n))
             ELSE FALSE

(***************************************************************************)
(* CompactString (protocol/types/compactstring.rs).  A String is the       *)
(* sequence of its UTF-8 bytes; size is a usize kept as a set of bits.     *)
(***************************************************************************)
\* as CompactString_get, comparing the declared length with the length of the
\* whole buffer instead of the bytes that remain after the prefix
CompactString_get_whole(buf) ==
    LET text(length, varint_bytes_read) ==
            IF U64Gt(length, Len(buf))
            THEN Err("InvalidLengthPrefix")
            ELSE IF varint_bytes_read + BitsToNat(length, 30) > Len(buf)
            THEN Panic("range end index out of range for slice")
            ELSE LET checked(string_bytes, total_bytes_read) ==
                         IF IsUtf8(string_bytes)
                         THEN [tag |-> "Ok", value |-> string_bytes,
                               total |-> total_bytes_read]
                         ELSE Err("InvalidUtf8")
                 IN  checked(Slice(buf, varint_bytes_read,
                                   varint_bytes_read + BitsToNat(length, 30)),
                             varint_bytes_read + BitsToNat(length, 30))
        prefixed(v) == IF v.tag # "Ok" THEN v ELSE text(v.value, v.len)
    IN  prefixed(decode_varint(buf))

\* the slice &buf[a..b] panics when b exceeds the length of the buffer
CompactString_get(buf) ==
    LET text(length, varint_bytes_read) ==
            IF U64Gt(length, Len(buf) - varint_bytes_read)
            THEN Err("InvalidLengthPrefix")
            ELSE IF varint_bytes_read + BitsToNat(length, 30) > Len(buf)
            THEN Panic("range end index out of range for slice")
            ELSE LET checked(string_bytes, total_bytes_read) ==
                         IF IsUtf8(string_bytes)
                         THEN [tag |-> "Ok", value |-> string_bytes,
                               total |-> total_bytes_read]
                         ELSE Err("InvalidUtf8")
                 IN  checked(Slice(buf, varint_bytes_read,
                                   varint_bytes_read + BitsToNat(length, 30)),
                             varint_bytes_read + BitsToNat(length, 30))
        prefixed(v) == IF v.tag # "Ok" THEN v ELSE text(v.value, v.len)
    IN  prefixed(decode_varint(buf))

\* as CompactString_new, with size_len_bytes counting the prefix bytes only
CompactString_new_prefix_only(buf) ==
    LET built(g) ==
            IF g.tag # "Ok" THEN g
            ELSE [tag |-> "Ok", value |-> g.value, size |-> NatToBits(Len(g.value)),
                  size_len_bytes |-> g.total - Len(g.value)]
    IN  built(CompactString_get(buf))

CompactString_new(buf) ==
    LET built(g) ==
            IF g.tag # "Ok" THEN g
            ELSE [tag |-> "Ok", value |-> g.value, size |-> NatToBits(Len(g.value)),
                  size_len_bytes |-> g.total]
    IN  built(CompactString_get(buf))

\* CompactEncode for CompactString
encode_compact(cs) == encode_zigzag(NatToBits(cs.size_len_bytes)) \o cs.value

(***************************************************************************)
(* TopicStr (protocol/types/topicstr.rs).                                  *)
(***************************************************************************)
RECURSIVE trim_end_nul(_)
trim_end_nul(bs) ==
    IF bs # <<>> /\ bs[Len(bs)] = 0 THEN trim_end_nul(SubSeq(bs, 1, Len(bs) - 1))
    ELSE bs

\* x - 1 on a usize: panics when overflow checks are on, wraps otherwise
USizeDec(S, oc) ==
    IF S = {} THEN (IF oc THEN Panic("attempt to subtract with overflow")
                          ELSE [tag |-> "Ok", value |-> 0..63])
    ELSE LET m == CHOOSE i \in S : \A j \in S : i <= j
         IN  [tag |-> "Ok", value |-> (S \ {m}) \cup (0..(m - 1))]

TopicStr_new(buf, oc) ==
    LET shrink(cs) ==
            IF cs.tag # "Ok" THEN cs
            ELSE LET build(size2, slb) ==
                         IF size2.tag = "Panic" THEN size2
                         ELSE [tag |-> "Ok",
                               value |-> [value |-> trim_end_nul(cs.value),
                                          size |-> size2.value,
                                          size_len_bytes |-> slb],
                               tag_buffer |-> buf[slb + 1],
                               bytes_len |-> slb]
                 IN  build(USizeDec(cs.size, oc), cs.size_len_bytes - 1)
    IN  shrink(CompactString_new(buf))

(***************************************************************************)
(* CompactArray<T> (protocol/types/compactarray.rs), for the element types *)
(* that implement Decode<T> and Offset: CompactString and TopicStr.        *)
(***************************************************************************)
\* T::decode: the element, or Err(DecodeError::InvalidBuffer)
T_decode(T, buf, oc) ==
    LET mapped(r) == IF r.tag = "Err" THEN Err("InvalidBuffer") ELSE r
    IN  mapped(IF T = "TopicStr" THEN TopicStr_new(buf, oc) ELSE CompactString_new(buf))

\* Offset::get_offset
get_offset(T, e) ==
    IF T = "TopicStr" THEN e.value.size_len_bytes + 1 ELSE e.size_len_bytes

\* the text an element holds
ElemText(T, e) == IF T = "TopicStr" THEN e.value.value ELSE e.value

\* for _ in 0..remaining { .. }
RECURSIVE array_loop(_, _, _, _, _, _)
array_loop(T, buf, remaining, ptr, elements, oc) ==
    IF remaining = {}
    THEN [tag |-> "Ok", elements |-> elements, consumed |-> ptr]
    ELSE IF ptr >= Len(buf)
    THEN [tag |-> "Ok", elements |-> elements, consumed |-> ptr]
    ELSE LET step(d) ==
                 IF d.tag = "Ok"
                 THEN array_loop(T, buf, USizeDec(remaining, FALSE).value,
                                 ptr + get_offset(T, d), Append(elements, d), oc)
                 ELSE IF d.tag = "Panic" THEN d
                 ELSE Err("InvalidVarint")
         IN  step(T_decode(T, SubSeqFrom(buf, ptr), oc))

\* the bound of the loop: length, without the - 1 of the source
array_count_all(length, oc) == [tag |-> "Ok", value |-> length]

\* the bound of the loop: length - 1 on a u64
array_count(length, oc) == USizeDec(length, oc)

CompactArray_new(T, buf, oc) ==
    LET counted(v, n) ==
            IF n.tag = "Panic" THEN n
            ELSE array_loop(T, buf, n.value, v.len, <<>>, oc)
        prefixed(v) == IF v.tag # "Ok" THEN v ELSE counted(v, array_count(v.value, oc))
    IN  prefixed(decode_varint(buf))

(***************************************************************************)
(* Fixed-width big-endian integers (from_be_bytes, to_be_bytes).           *)
(***************************************************************************)
Signed8(b) == IF b >= 128 THEN b - 256 ELSE b

I16FromBe(bs) == Signed8(bs[1]) * 256 + bs[2]
I32FromBe(bs) == Signed8(bs[1]) * 16777216 + bs[2] * 65536 + bs[3] * 256 + bs[4]

I16ToBe(x) == <<(x \div 256) % 256, x % 256>>
\* as I32ToBe, least significant byte first
I32ToLe(x) == <<x % 256, (x \div 256) % 256, (x \div 65536) % 256, (x \div 16777216) % 256>>

I32ToBe(x) == <<(x \div 16777216) % 256, (x \div 65536) % 256, (x \div 256) % 256, x % 256>>

(***************************************************************************)
(* NullableString (protocol/types/nullstring.rs).                          *)
(***************************************************************************)
NullableString_new_empty == [value |-> <<>>, length |-> 0]

\* a + (b as usize) for an i16 b and a small usize a: the sum when it fits,
\* "huge" when b is negative and the sum stays below 2^64, and on overflow a
\* panic (overflow checks on) or the wrapped sum
USizeAddI16(a, b, oc) ==
    IF b >= 0 THEN [tag |-> "Ok", huge |-> FALSE, v |-> a + b]
    ELSE IF a + b >= 0
         THEN (IF oc THEN Panic("attempt to add with overflow")
                     ELSE [tag |-> "Ok", huge |-> FALSE, v |-> a + b])
    ELSE [tag |-> "Ok", huge |-> TRUE, v |-> 0]

NullableString_new(buf, idx, length, oc) ==
    IF length = -1 THEN [tag |-> "Ok", value |-> <<>>, length |-> 0]
    ELSE IF length = -32768 /\ oc THEN Panic("attempt to subtract with overflow")
    ELSE LET l1 == IF length = -32768 THEN 32767 ELSE length - 1
             last == USizeAddI16(idx, l1, oc)
         IN  IF last.tag = "Panic" THEN last
             ELSE IF last.huge \/ last.v >= Len(buf) THEN Err("IndexOutOfBounds")
             ELSE LET end == USizeAddI16(idx, length, oc)
                  IN  IF end.tag = "Panic" THEN end
                      ELSE IF end.huge \/ end.v > Len(buf)
                           THEN Panic("range end index out of range for slice")
                      ELSE IF idx > end.v
                           THEN Panic("slice index starts after its end")
                      ELSE IF IsUtf8(Slice(buf, idx, end.v))
                           THEN [tag |-> "Ok", value |-> Slice(buf, idx, end.v),
                                 length |-> length]
                      ELSE Err("Other")

(***************************************************************************)
(* RequestBase and ResponseBase (protocol/mod.rs).                         *)
(***************************************************************************)
RequestBase_new(buf, oc) ==
    IF Len(buf) < 14 THEN Err("InvalidBufLength")
    ELSE LET client_id_size == I16FromBe(Slice(buf, 12, 14))
             sum == 14 + client_id_size
             base == IF client_id_size = -1 THEN [tag |-> "Ok", v |-> 14]
                     ELSE IF sum > 32767
                          THEN (IF oc THEN Panic("attempt to add with overflow")
                                      ELSE [tag |-> "Ok", v |-> sum - 65536])
                     ELSE [tag |-> "Ok", v |-> sum]
             client_id == IF client_id_size = -1
                          THEN [tag |-> "Ok", value |-> <<>>, length |-> 0]
                          ELSE NullableString_new(buf, 14, client_id_size, oc)
         IN  IF base.tag = "Panic" THEN base
             ELSE IF client_id.tag # "Ok" THEN client_id
             ELSE [tag |-> "Ok",
                   size |-> I32FromBe(Slice(buf, 0, 4)),
                   api_key |-> I16FromBe(Slice(buf, 4, 6)),
                   api_version |-> I16FromBe(Slice(buf, 6, 8)),
                   correlation_id |-> I32FromBe(Slice(buf, 8, 12)),
                   client_id |-> [value |-> client_id.value, length |-> client_id.length],
                   base_size |-> base.v]

\* ResponseBase::new(size, correlation_id).encode
ResponseBase_encode(size, correlation_id) == I32ToBe(size) \o I32ToBe(correlation_id)

(***************************************************************************)
(* supported_versions.json and the capability-negotiation codec            *)
(* (protocol/schema/requests/mod.rs, apiversions.rs).  The file is either  *)
(* unreadable as a table (missing, empty, invalid JSON) or a list of rows. *)
(***************************************************************************)
\* as is_version_supported, with the upper bound of a range excluded
is_version_supported_exclusive(f, key, version) ==
    IF f.tag # "Table" THEN Err("io or json")
    ELSE [tag |-> "Ok",
          value |-> \E i \in 1..Len(f.rows) :
                        /\ f.rows[i].key = key
                        /\ version >= f.rows[i].min
                        /\ version < f.rows[i].max]

is_version_supported(f, key, version) ==
    IF f.tag # "Table" THEN Err("io or json")
    ELSE [tag |-> "Ok",
          value |-> \E i \in 1..Len(f.rows) :
                        /\ f.rows[i].key = key
                        /\ version >= f.rows[i].min
                        /\ version <= f.rows[i].max]

\* the body of the loop over the rows: key, min, max and a tag byte
RowBytes(row) == I16ToBe(row.key) \o I16ToBe(row.min) \o I16ToBe(row.max) \o <<0>>

\* the bytes the loop over the rows appends, seven for each row in turn
RowsBytes(rows) ==
    [j \in 1..7 * Len(rows) |-> RowBytes(rows[((j - 1) \div 7) + 1])[((j - 1) % 7) + 1]]

\* as get_supported_versions_bytes, with the number of rows as count byte
get_supported_versions_bytes_plain(f, oc) ==
    IF f.tag # "Table" THEN Err("io or json")
    ELSE [tag |-> "Ok", value |-> <<Len(f.rows) % 256>> \o RowsBytes(f.rows)]

\* arr_size = data.len() as i8 + 1: the sum overflows an i8 when the cast
\* gives 127, which panics when overflow checks are on and wraps to the byte
\* 0x80 otherwise
get_supported_versions_bytes(f, oc) ==
    IF f.tag # "Table" THEN Err("io or json")
    ELSE IF Len(f.rows) % 256 = 127 /\ oc THEN Panic("attempt to add with overflow")
    ELSE [tag |-> "Ok", value |-> <<(Len(f.rows) + 1) % 256>> \o RowsBytes(f.rows)]

ApiVersionRequest_new(base, buf) ==
    LET client_software_name == CompactString_new(buf)
    IN  IF client_software_name.tag # "Ok" THEN client_software_name
        ELSE LET client_software_version ==
                     CompactString_new(SubSeqFrom(buf, client_software_name.size_len_bytes))
             IN  IF client_software_version.tag # "Ok" THEN client_software_version
                 ELSE [tag |-> "Ok", base_request |-> base,
                       client_software_name |-> client_software_name,
                       client_software_version |-> client_software_version]

\* as ApiVersion_res_size, without the trailing tag byte
ApiVersion_res_size_short(data) == 4 + 2 + Len(data) + 4

ApiVersion_res_size(data) == 4 + 2 + Len(data) + 5

\* as ApiVersion_get_response, answering an unreadable table with error code
\* 35 and an empty table
ApiVersion_get_response_lenient(self, f, oc) ==
    IF f.tag # "Table"
    THEN [tag |-> "Ok",
          value |-> I32ToBe(12) \o I32ToBe(self.base_request.correlation_id)
                      \o I16ToBe(35) \o <<1>> \o <<0, 0, 0, 0>> \o <<0>>]
    ELSE [tag |-> "Ok",
          value |-> I32ToBe(ApiVersion_res_size(get_supported_versions_bytes(f, FALSE).value))
                      \o I32ToBe(self.base_request.correlation_id)
                      \o I16ToBe(IF is_version_supported(f, self.base_request.api_key,
                                      self.base_request.api_version).value THEN 0 ELSE 35)
                      \o get_supported_versions_bytes(f, FALSE).value
                      \o <<0, 0, 0, 0>> \o <<0>>]

ApiVersion_get_response(self, f, oc) ==
    LET data == get_supported_versions_bytes(f, oc)
    IN  IF data.tag = "Panic" THEN data
        ELSE IF data.tag # "Ok" THEN Err("InvalidBuffer")
        ELSE LET res_size == ApiVersion_res_size(data.value)
                 sup == is_version_supported(f, self.base_request.api_key,
                                             self.base_request.api_version)
             IN  IF sup.tag # "Ok" THEN Err("InvalidBuffer")
                 ELSE [tag |-> "Ok",
                       value |-> I32ToBe(res_size)
                                   \o I32ToBe(self.base_request.correlation_id)
                                   \o I16ToBe(IF sup.value THEN 0 ELSE 35)
                                   \o data.value
                                   \o <<0, 0, 0, 0>>
                                   \o <<0>>]

(***************************************************************************)
(* The topic-partition description codec (describetopic.rs).               *)
(***************************************************************************)
\* CompactArray::encode of the partitions of a Topic, which are always empty
CompactArray_encode(elements) == IF Len(elements) < 1 THEN <<1>> ELSE <<>>

\* Topic::new(name) followed by Topic::encode
Topic_encode(name) ==
    I16ToBe(3)
        \o encode_compact(name)
        \o Repeat(0, 16)
        \o <<0>>
        \o CompactArray_encode(<<>>)
        \o <<0, 0, 13, 248>>
        \o <<0>>

RECURSIVE TopicsBytes(_)
TopicsBytes(elements) ==
    IF elements = <<>> THEN <<>>
    ELSE Topic_encode(Head(elements).value) \o TopicsBytes(Tail(elements))

DescribeTopicPartitions_new(base_request, buf, oc) ==
    LET a == CompactArray_new("TopicStr", buf, oc)
    IN  IF a.tag # "Ok" THEN a
        ELSE LET offset == a.consumed
             IN  IF offset + 4 > Len(buf)
                 THEN Panic("range end index out of range for slice")
                 ELSE [tag |-> "Ok", base_request |-> base_request,
                       topics_array |-> a.elements,
                       response_partition_limit |-> I32FromBe(Slice(buf, offset, offset + 4)),
                       cursor |-> 255, tag_buffer |-> 0]

\* as Describe_frame, with the length prefix counting itself
Describe_frame_inclusive(message) == I32ToBe(Len(message) + 4) \o message

\* the length prefix and the message; BytesMut::with_capacity(n) holds exactly
\* n bytes, so the closing resize to the capacity appends nothing
Describe_frame(message) == I32ToBe(Len(message)) \o message

DescribeTopicPartitions_get_response(self) ==
    LET message == I32ToBe(self.base_request.correlation_id)
                       \o <<0>>
                       \o <<0, 0, 0, 0>>
                       \o <<(Len(self.topics_array) + 1) % 256>>
                       \o TopicsBytes(self.topics_array)
                       \o <<self.cursor>>
                       \o <<self.tag_buffer>>
    IN  [tag |-> "Ok", value |-> Describe_frame(message)]

(***************************************************************************)
(* The dispatcher (handler.rs).  An outcome is what a request cycle did:   *)
(* the byte strings it wrote to the socket, the diagnostics it printed,    *)
(* the codec it routed to and the panic it died of, if any.                *)
(***************************************************************************)
\* as get_request, with the two keys exchanged
get_request_swapped(key) ==
    IF key = 75 THEN "ApiVersions"
    ELSE IF key = 18 THEN "DescribeTopicsPartitions"
    ELSE "Unknown"

get_request(key) ==
    IF key = 18 THEN "ApiVersions"
    ELSE IF key = 75 THEN "DescribeTopicsPartitions"
    ELSE "Unknown"

Outcome(codec, written, reported, fault) ==
    [codec |-> codec, written |-> written, reported |-> reported, fault |-> fault]

\* respond(socket, buf): write_all, then flush
respond(codec, response, sock_ok) ==
    IF sock_ok THEN Outcome(codec, <<response>>, <<>>, "none")
    ELSE Outcome(codec, <<>>, <<"failed to write to socket">>, "none")

dispatch_request(req, buf, f, sock_ok, oc) ==
    LET api_key == get_request(req.api_key)
        \* req.base_size as usize: a negative i16 becomes a huge offset
        past_base == IF req.base_size < 0 THEN Len(buf) + 1 ELSE req.base_size
    IN  IF api_key = "ApiVersions"
        THEN IF past_base > Len(buf)
             THEN Outcome(api_key, <<>>, <<>>, "range start index out of range for slice")
             ELSE LET api_versions == ApiVersionRequest_new(req, SubSeqFrom(buf, past_base))
                  IN  IF api_versions.tag # "Ok"
                      THEN Outcome(api_key, <<>>, <<"Error while parsing api request">>, "none")
                      ELSE LET response == ApiVersion_get_response(api_versions, f, oc)
                           IN  IF response.tag = "Panic"
                               THEN Outcome(api_key, <<>>, <<>>, response.why)
                               ELSE IF response.tag # "Ok"
                               THEN Outcome(api_key, <<>>,
                                            <<"Error while parsing api request">>, "none")
                               ELSE respond(api_key, response.value, sock_ok)
        ELSE IF api_key = "DescribeTopicsPartitions"
        THEN IF past_base + 1 > Len(buf)
             THEN Outcome(api_key, <<>>, <<>>, "range start index out of range for slice")
             ELSE LET describe_t_p ==
                          DescribeTopicPartitions_new(req, SubSeqFrom(buf, past_base + 1), oc)
                  IN  IF describe_t_p.tag = "Panic"
                      THEN Outcome(api_key, <<>>, <<>>, describe_t_p.why)
                      ELSE IF describe_t_p.tag # "Ok"
                      THEN Outcome(api_key, <<>>,
                                   <<"Error while parsing describe topics partitions">>, "none")
                      ELSE LET response == DescribeTopicPartitions_get_response(describe_t_p)
                           IN  IF response.tag # "Ok"
                               THEN Outcome(api_key, <<>>,
                                            <<"Error while parsing api request">>, "none")
                               ELSE respond(api_key, response.value, sock_ok)
        ELSE Outcome(api_key, <<>>, <<>>, "none")

(***************************************************************************)
(* The body of the per-connection loop after a read (main.rs, 34-53): the  *)
(* header is parsed from the whole read buffer and a ResponseBase with     *)
(* size 0 and the request's correlation id is written.  next is what the   *)
(* task does then: it reads again, or it has ended.                        *)
(***************************************************************************)
main_cycle(buf, sock_ok, oc) ==
    LET base_request == RequestBase_new(buf, oc)
    IN  IF base_request.tag = "Panic"
        THEN [out |-> Outcome("none", <<>>, <<>>, base_request.why), next |-> "ended"]
        ELSE IF base_request.tag # "Ok"
        THEN [out |-> Outcome("none", <<>>, <<"Failed to parse request">>, "none"),
              next |-> "ended"]
        ELSE LET res_buf == ResponseBase_encode(0, base_request.correlation_id)
             IN  IF sock_ok
                 THEN [out |-> Outcome("none", <<res_buf>>, <<>>, "none"), next |-> "read"]
                 ELSE [out |-> Outcome("none", <<>>, <<"failed to write to socket">>, "none"),
                       next |-> "ended"]

(***************************************************************************)
(* Specification of the varint codec: a value is encoded and the encoding, *)
(* followed by a tail, decoded; or a buffer is decoded as it stands.       *)
(***************************************************************************)
\* u64 values at the group boundaries: 2^k - 1, 2^k, 2^k + 1 and 2^64 - 2^k
VarintValues ==
    {0..(k - 1) : k \in 0..64}
        \cup {{k} : k \in 0..63}
        \cup {{0, k} : k \in 1..63}
        \cup {k..63 : k \in 0..63}

VarintTails == {<<>>, <<0>>, <<128>>, <<5, 255>>}

ContBytes == {128, 129, 255}
TermBytes == {0, 1, 127}
FreeBytes == {0, 1, 127, 128, 255}

VarintBuffers ==
    {Repeat(c, k) \o t : c \in ContBytes, k \in 0..MaxCont,
                         t \in {<<>>} \cup {<<b>> \o tl : b \in TermBytes, tl \in VarintTails}}
        \cup SeqsUpTo(FreeBytes, MaxFree)

Idle == [c \in {} |-> None]

InitVarint ==
    /\ overflow_checks \in BOOLEAN
    /\ pc = "init"
    /\ arg \in [kind : {"value"}, value : VarintValues, tail : VarintTails]
                   \cup [kind : {"buf"}, buf : VarintBuffers]
    /\ ret = None
    /\ file = None
    /\ tasks = Idle /\ inbox = Idle /\ outbox = Idle /\ log = Idle

EncodeZigzag ==
    /\ pc = "init"
    /\ arg.kind = "value"
    /\ pc' = "encoded"
    /\ ret' = [tag |-> "Encoded", bytes |-> encode_zigzag(arg.value)]
    /\ UNCHANGED <<overflow_checks, arg, file, tasks, inbox, outbox, log>>

DecodeVarint ==
    /\ \/ pc = "encoded"
       \/ pc = "init" /\ arg.kind = "buf"
    /\ pc' = "decoded"
    /\ ret' = IF arg.kind = "value"
              THEN [tag |-> "Decoded", bytes |-> ret.bytes,
                    res |-> decode_varint(ret.bytes \o arg.tail)]
              ELSE [tag |-> "Decoded", bytes |-> arg.buf, res |-> decode_varint(arg.buf)]
    /\ UNCHANGED <<overflow_checks, arg, file, tasks, inbox, outbox, log>>

NextVarint == EncodeZigzag \/ DecodeVarint

SpecVarint == InitVarint /\ [][NextVarint]_vars

\* C8: decoding encode_zigzag(v), whatever bytes follow it, returns v and the
\* number of bytes the encoder produced, for every u64 value v.
C8_VarintRoundTrip ==
    (pc = "decoded" /\ arg.kind = "value")
        => ret.res = Ok2(arg.value, Len(ret.bytes))

\* 2^64 - 1 was encoded on ten bytes and decoded with bytes following it
C8_Witness ==
    /\ pc = "decoded" /\ arg.kind = "value"
    /\ arg.value = 0..63 /\ arg.tail = <<5, 255>>
    /\ Len(ret.bytes) = 10
    /\ ret.res.tag = "Ok"

HighBit(b) == b \div 128 = 1

\* C9: decode_varint fails with InvalidVarint on a buffer that has no byte with
\* a clear high bit and on a buffer whose first ten bytes all have the high bit
\* set; a successful decode consumes 1..10 bytes, the last of which is the
\* first byte with a clear high bit, and the result does not depend on the
\* bytes after it.
C9_VarintErrors ==
    pc = "decoded" =>
        LET buf == IF arg.kind = "value" THEN ret.bytes \o arg.tail ELSE arg.buf
            res == ret.res
        IN  /\ (\A j \in 1..Len(buf) : HighBit(buf[j])) => res = Err("InvalidVarint")
            /\ (Len(buf) >= 10 /\ \A j \in 1..10 : HighBit(buf[j]))
                    => res = Err("InvalidVarint")
            /\ res.tag \in {"Ok", "Err"}
            /\ res.tag = "Ok" =>
                    /\ res.len \in 1..10
                    /\ res.len <= Len(buf)
                    /\ ~HighBit(buf[res.len])
                    /\ \A j \in 1..(res.len - 1) : HighBit(buf[j])
                    /\ res = decode_varint(SubSeq(buf, 1, res.len))

\* ten continuation bytes followed by a terminator were rejected
C9_Witness ==
    /\ pc = "decoded" /\ arg.kind = "buf"
    /\ Len(arg.buf) = 11
    /\ \A j \in 1..10 : HighBit(arg.buf[j])
    /\ ~HighBit(arg.buf[11])
    /\ ret.res = Err("InvalidVarint")

(***************************************************************************)
(* Specification of the compact-array codec: CompactArray::<T>::new is     *)
(* applied to a buffer, either built from a count and well-formed elements *)
(* or enumerated byte by byte.                                             *)
(***************************************************************************)
ElemTypes == {"CompactString", "TopicStr"}

\* "", "A", "AB" and a two-byte UTF-8 character
Texts == {<<>>, <<65>>, <<65, 66>>, <<195, 169>>}

varint(n) == encode_zigzag(NatToBits(n))

\* one element on the wire: a compact string; a topic name carries the
\* trailing NUL byte of its wire form inside the declared length
ElemWire(T, text) ==
    IF T = "TopicStr" THEN varint(Len(text) + 1) \o text \o <<0>>
    ELSE varint(Len(text)) \o text

RECURSIVE ElemsWire(_, _)
ElemsWire(T, texts) ==
    IF texts = <<>> THEN <<>> ELSE ElemWire(T, Head(texts)) \o ElemsWire(T, Tail(texts))

ArrayWire(T, texts) == varint(Len(texts) + 1) \o ElemsWire(T, texts)

ArrayTails == {<<>>, <<0, 0, 0, 1>>, <<255>>}

ArrayBytes == {0, 1, 2, 65, 255}

\* "Hello" and "Bye", the elements of test_compact_array_decoding_valid
TestTexts == <<<<72, 101, 108, 108, 111>>, <<66, 121, 101>>>>

\* the proper, non-empty prefixes of a byte string
Cuts(s) == {SubSeq(s, 1, k) : k \in 1..(Len(s) - 1)}

\* buffers handed to CompactArray::new: a count prefix of n + 1 before n
\* well-formed elements ("wellformed"), such a buffer cut short ("cut"), a
\* count prefix of k before k well-formed elements ("counted"), and byte
\* strings enumerated byte by byte ("buf")
ArrayArgs ==
    {[kind |-> "wellformed", T |-> T, texts |-> ts, tail |-> tl,
      buf |-> ArrayWire(T, ts) \o tl] :
        T \in ElemTypes, ts \in SeqsUpTo(Texts, MaxElems), tl \in ArrayTails}
    \cup
    UNION {{[kind |-> "cut", T |-> T, texts |-> ts, buf |-> b] :
               b \in Cuts(ArrayWire(T, ts))} :
           T \in ElemTypes, ts \in SeqsUpTo(Texts, MaxElems)}
    \cup
    {[kind |-> "counted", T |-> T, texts |-> ts,
      buf |-> varint(Len(ts)) \o ElemsWire(T, ts)] :
        T \in ElemTypes, ts \in SeqsUpTo(Texts, MaxElems) \cup {TestTexts}}
    \cup
    {[kind |-> "buf", T |-> T, buf |-> b] :
        T \in ElemTypes, b \in SeqsUpTo(ArrayBytes, MaxFree + 1)}

InitArray ==
    /\ overflow_checks \in BOOLEAN
    /\ pc = "init"
    /\ arg \in ArrayArgs
    /\ ret = None
    /\ file = None
    /\ tasks = Idle /\ inbox = Idle /\ outbox = Idle /\ log = Idle

CompactArrayNew ==
    /\ pc = "init"
    /\ pc' = "done"
    /\ ret' = CompactArray_new(arg.T, arg.buf, overflow_checks)
    /\ UNCHANGED <<overflow_checks, arg, file, tasks, inbox, outbox, log>>

NextArray == CompactArrayNew

SpecArray == InitArray /\ [][NextArray]_vars

RECURSIVE SumOffsets(_, _)
SumOffsets(T, es) ==
    IF es = <<>> THEN 0 ELSE get_offset(T, Head(es)) + SumOffsets(T, Tail(es))

Declared(buf) == USizeDec(decode_varint(buf).value, FALSE).value

\* C11: CompactArray::new never returns a silently truncated array: when it
\* returns an array, the array holds as many elements as the prefix declares;
\* a buffer that ends before the declared elements are decoded is an error.
C11_NoTruncatedArray ==
    (pc = "done" /\ ret.tag = "Ok") =>
        NatToBits(Len(ret.elements)) = Declared(arg.buf)

\* C12: a count prefix of k followed by k well-formed compact strings decodes
\* to exactly k elements, in the order of the buffer.
C12_PrefixCountsElements ==
    (pc = "done" /\ arg.kind = "counted" /\ arg.T = "CompactString") =>
        /\ ret.tag = "Ok"
        /\ Len(ret.elements) = Len(arg.texts)
        /\ \A i \in 1..Len(arg.texts) : ret.elements[i].value = arg.texts[i]

(***************************************************************************)
(* Specification of one request cycle: a buffer holding a frame is parsed  *)
(* by RequestBase::new and the parsed header handed to dispatch_request,   *)
(* or the buffer goes through the loop body of main.rs.                    *)
(***************************************************************************)
ApiKeys == {18, 75, 1, -1}
ApiVersionsTried == {1, 9}
CorrelationIds == {<<0, 0, 0, 7>>, <<255, 1, 2, 254>>}
\* null, empty, "A", a declared length of 2 with one byte present, and -2
ClientIds == {<<255, 255>>, <<0, 0>>, <<0, 1, 65>>, <<0, 2, 65>>, <<255, 254>>}

Prefixes(s) == {SubSeq(s, 1, n) : n \in 0..Len(s)}

\* a capability-negotiation body: name "A", version "BC", tag buffer
ApiBody == <<1, 65, 2, 66, 67, 0>>
\* a topic-partition description body: tag buffer, two topic names "A" and
\* "BC", the partition limit, cursor and tag buffer
DescribeBody == <<0, 3, 2, 65, 0, 3, 66, 67, 0, 0, 0, 0, 1, 255, 0>>

Bodies ==
    Prefixes(ApiBody) \cup Prefixes(DescribeBody)
        \cup {<<0, 0>>, <<0, 0, 0, 0, 0, 1>>, <<0, 1, 0, 0, 0, 1>>, <<2, 255, 255>>,
              <<0, 2, 1, 0, 0, 0, 0, 1>>, <<0, 2, 0, 0, 0, 0, 1>>}

Header(key, ver, corr, cid) == <<0, 0, 0, 35>> \o I16ToBe(key) \o I16ToBe(ver) \o corr \o cid

CycleBuffers ==
    {Header(k, v, c, cid) \o b :
        k \in ApiKeys, v \in ApiVersionsTried, c \in CorrelationIds,
        cid \in ClientIds, b \in Bodies}
    \cup Prefixes(Header(18, 1, <<0, 0, 0, 7>>, <<255, 255>>))

Row(k, lo, hi) == [key |-> k, min |-> lo, max |-> hi]

Files ==
    {[tag |-> "Missing"],
     [tag |-> "Table", rows |-> <<>>],
     [tag |-> "Table", rows |-> <<Row(18, 0, 4), Row(75, 0, 0)>>]}

InitCycle ==
    /\ overflow_checks \in BOOLEAN
    /\ pc = "init"
    /\ arg \in [buf : CycleBuffers, sock_ok : BOOLEAN]
    /\ ret = None
    /\ file \in Files
    /\ tasks = Idle /\ inbox = Idle /\ outbox = Idle /\ log = Idle

RequestBaseNew ==
    /\ pc = "init"
    /\ pc' = "parsed"
    /\ ret' = RequestBase_new(arg.buf, overflow_checks)
    /\ UNCHANGED <<overflow_checks, arg, file, tasks, inbox, outbox, log>>

DispatchRequest ==
    /\ pc = "parsed"
    /\ ret.tag = "Ok"
    /\ pc' = "dispatched"
    /\ ret' = [req |-> ret,
               out |-> dispatch_request(ret, arg.buf, file, arg.sock_ok, overflow_checks)]
    /\ UNCHANGED <<overflow_checks, arg, file, tasks, inbox, outbox, log>>

MainCycle ==
    /\ pc = "init"
    /\ pc' = "answered"
    /\ ret' = main_cycle(arg.buf, arg.sock_ok, overflow_checks)
    /\ UNCHANGED <<overflow_checks, arg, file, tasks, inbox, outbox, log>>

NextCycle == RequestBaseNew \/ DispatchRequest \/ MainCycle

SpecCycle == InitCycle /\ [][NextCycle]_vars

C4_DispatchNeverFaults ==
    pc = "dispatched" =>
        /\ ret.out.fault = "none"
        /\ Len(ret.out.written) <= 1

\* the request body the dispatcher hands to the codec of a routed request
BodyOf(req, buf, codec) ==
    SubSeqFrom(buf, req.base_size + (IF codec = "ApiVersions" THEN 0 ELSE 1))

\* C5: for an api key other than 18 and 75 dispatch_request writes nothing,
\* prints nothing and returns; key 18 goes to the capability-negotiation codec
\* and key 75 to the topic-partition description codec, and a response written
\* is the one that codec builds.
C5_UnknownKeySilent ==
    pc = "dispatched" =>
        LET key == ret.req.api_key
            out == ret.out
        IN  /\ key \notin {18, 75} => out = Outcome("Unknown", <<>>, <<>>, "none")
            /\ key = 18 =>
                   /\ out.codec = "ApiVersions"
                   /\ out.written # <<>> =>
                          out.written[1] =
                              ApiVersion_get_response(
                                  ApiVersionRequest_new(
                                      ret.req, BodyOf(ret.req, arg.buf, "ApiVersions")),
                                  file, overflow_checks).value
            /\ key = 75 =>
                   /\ out.codec = "DescribeTopicsPartitions"
                   /\ out.written # <<>> =>
                          out.written[1] =
                              DescribeTopicPartitions_get_response(
                                  DescribeTopicPartitions_new(
                                      ret.req, BodyOf(ret.req, arg.buf, "Describe"),
                                      overflow_checks)).value

\* a request with key -1 and a well-formed body was dropped in silence
C5_Witness ==
    /\ pc = "dispatched"
    /\ ret.req.api_key = -1
    /\ SubSeqFrom(arg.buf, ret.req.base_size) = ApiBody
    /\ arg.sock_ok
    /\ ret.out.written = <<>> /\ ret.out.reported = <<>>

\* C7: the response a codec's get_response returns is well framed: its first
\* four bytes, as a big-endian i32, count the bytes that follow them.
C7_WellFramed ==
    pc = "dispatched" =>
        \A i \in 1..Len(ret.out.written) :
            LET w == ret.out.written[i]
            IN  /\ Len(w) >= 4
                /\ I32FromBe(Slice(w, 0, 4)) = Len(w) - 4

\* a capability-negotiation response listing two table rows was produced
C7_Witness ==
    /\ pc = "dispatched"
    /\ ret.out.codec = "ApiVersions"
    /\ Len(ret.out.written) = 1
    /\ file.tag = "Table" /\ Len(file.rows) = 2

(***************************************************************************)
(* Specification of the server (main.rs): the accept loop spawns one task  *)
(* per connection; each task reads a chunk into its buffer, parses the     *)
(* header, writes the response and reads again.  A task is suspended only  *)
(* at the read and at the write.  The buffer always has BufCapacity bytes; *)
(* the state keeps its bytes up to the longest chunk read so far, the rest *)
(* being the zeros of the first resize.                                    *)
(***************************************************************************)
BufCapacity == 1024

Conns == {"c1", "c2"}

FullBuf(kept) == kept \o Repeat(0, BufCapacity - Len(kept))

\* socket.read(&mut buf): the chunk overwrites the head of the buffer
ReadInto(kept, chunk) ==
    IF Len(chunk) >= Len(kept) THEN chunk ELSE chunk \o SubSeqFrom(kept, Len(chunk))

\* frames with distinct correlation ids: a capability-negotiation request, a
\* topic-partition description request, a header whose client id is not
\* UTF-8, and a chunk of six bytes
Frame18 == Header(18, 1, <<0, 0, 0, 7>>, <<255, 255>>) \o ApiBody
Frame75 == Header(75, 0, <<0, 0, 0, 9>>, <<0, 1, 65>>) \o DescribeBody
FrameBadClientId == Header(18, 1, <<0, 0, 0, 5>>, <<0, 1, 255>>)
FrameShort == <<0, 0, 0, 2, 0, 18>>

Frames == {Frame18, Frame75, FrameBadClientId, FrameShort}

\* the zero-length chunk is the end of the stream (read returns Ok(0))
Eof == <<>>

ServedFile == [tag |-> "Table", rows |-> <<Row(18, 0, 4), Row(75, 0, 0)>>]

Init ==
    /\ overflow_checks \in BOOLEAN
    /\ pc = "listening"
    /\ arg = None
    /\ ret = None
    /\ file = ServedFile
    /\ tasks = [c \in Conns |-> [pc |-> "unaccepted", buf |-> <<>>, res_buf |-> <<>>]]
    /\ inbox = [c \in Conns |-> <<>>]
    /\ outbox = [c \in Conns |-> <<>>]
    /\ log = [c \in Conns |-> <<>>]

RECURSIVE SentBy(_)
SentBy(cs) ==
    IF cs = {} THEN 0
    ELSE LET c == CHOOSE x \in cs : TRUE
         IN  Len(log[c]) + Len(inbox[c]) + SentBy(cs \ {c})

ClientClosed(c) ==
    \/ \E i \in 1..Len(inbox[c]) : inbox[c][i] = Eof
    \/ \E i \in 1..Len(log[c]) : log[c][i].chunk = Eof

\* the client writes a frame, or closes its side, while the server holds
\* the connection
ClientSend(c) ==
    /\ pc = "listening"
    /\ tasks[c].pc # "ended"
    /\ SentBy(Conns) < MaxSent
    /\ ~ClientClosed(c)
    /\ \E f \in Frames \cup {Eof} : inbox' = [inbox EXCEPT ![c] = Append(@, f)]
    /\ UNCHANGED <<overflow_checks, pc, arg, ret, file, tasks, outbox, log>>

\* listener.accept() and tokio::spawn
Accept(c) ==
    /\ pc = "listening"
    /\ tasks[c].pc = "unaccepted"
    /\ tasks' = [tasks EXCEPT ![c].pc = "read"]
    /\ UNCHANGED <<overflow_checks, pc, arg, ret, file, inbox, outbox, log>>

\* as after_read, but the response is left to be written while the task
\* already reads again
after_read_pipelined(t, chunk, oc) ==
    IF chunk = Eof THEN [t EXCEPT !.pc = "ended"]
    ELSE LET buf == ReadInto(t.buf, chunk)
             base_request == RequestBase_new(FullBuf(buf), oc)
         IN  IF base_request.tag # "Ok"
             THEN [pc |-> "ended", buf |-> buf, res_buf |-> <<>>]
             ELSE [pc |-> "read", buf |-> buf,
                   res_buf |-> ResponseBase_encode(0, base_request.correlation_id)]

\* the task after a read of chunk: it ended (end of stream, header rejected,
\* panic) or holds the response it is about to write
after_read(t, chunk, oc) ==
    IF chunk = Eof THEN [t EXCEPT !.pc = "ended"]
    ELSE LET buf == ReadInto(t.buf, chunk)
             base_request == RequestBase_new(FullBuf(buf), oc)
         IN  IF base_request.tag # "Ok"
             THEN [pc |-> "ended", buf |-> buf, res_buf |-> <<>>]
             ELSE [pc |-> "write", buf |-> buf,
                   res_buf |-> ResponseBase_encode(0, base_request.correlation_id)]

\* what the log keeps of a read: the chunk, the buffer parsed and the verdict
Cycle(t, chunk, oc) ==
    [chunk |-> chunk,
     buf |-> ReadInto(t.buf, chunk),
     parse |-> IF chunk = Eof THEN "Eof"
               ELSE RequestBase_new(FullBuf(ReadInto(t.buf, chunk)), oc).tag]

\* socket.read returns a chunk; the rest of the loop body runs up to the write
Read(c) ==
    /\ tasks[c].pc = "read"
    /\ inbox[c] # <<>>
    /\ tasks' = [tasks EXCEPT ![c] = after_read(@, Head(inbox[c]), overflow_checks)]
    /\ log' = [log EXCEPT ![c] = Append(@, Cycle(tasks[c], Head(inbox[c]), overflow_checks))]
    /\ inbox' = [inbox EXCEPT ![c] = Tail(@)]
    /\ UNCHANGED <<overflow_checks, pc, arg, ret, file, outbox>>

\* socket.read fails
ReadError(c) ==
    /\ tasks[c].pc = "read"
    /\ tasks' = [tasks EXCEPT ![c].pc = "ended"]
    /\ UNCHANGED <<overflow_checks, pc, arg, ret, file, inbox, outbox, log>>

\* write_all and flush succeed; the loop goes back to the read
Write(c) ==
    /\ tasks[c].pc = "write"
    /\ outbox' = [outbox EXCEPT ![c] = Append(@, tasks[c].res_buf)]
    /\ tasks' = [tasks EXCEPT ![c].pc = "read", ![c].res_buf = <<>>]
    /\ UNCHANGED <<overflow_checks, pc, arg, ret, file, inbox, log>>

\* write_all fails: break
WriteError(c) ==
    /\ tasks[c].pc = "write"
    /\ tasks' = [tasks EXCEPT ![c].pc = "ended", ![c].res_buf = <<>>]
    /\ UNCHANGED <<overflow_checks, pc, arg, ret, file, inbox, outbox, log>>

\* listener.accept() fails: main returns and the runtime drops every task
AcceptError ==
    /\ pc = "listening"
    /\ pc' = "exited"
    /\ tasks' = [c \in Conns |-> [tasks[c] EXCEPT !.pc = "ended", !.res_buf = <<>>]]
    /\ UNCHANGED <<overflow_checks, arg, ret, file, inbox, outbox, log>>

Next ==
    \/ AcceptError
    \/ \E c \in Conns :
           \/ ClientSend(c)
           \/ Accept(c)
           \/ Read(c)
           \/ ReadError(c)
           \/ Write(c)
           \/ WriteError(c)

Spec == Init /\ [][Next]_vars

\* C2: for a frame with api key 18 or 75 whose header and body decode, the
\* bytes the per-connection loop writes back are the response of the matching
\* codec's get_response.
C2_LoopAnswersWithCodec ==
    \A c \in Conns : \A i \in 1..Len(outbox[c]) :
        LET buf == FullBuf(log[c][i].buf)
            req == RequestBase_new(buf, overflow_checks)
            expected == dispatch_request(req, buf, file, TRUE, overflow_checks)
        IN  (req.tag = "Ok" /\ req.api_key \in {18, 75} /\ expected.written # <<>>)
                => outbox[c][i] = expected.written[1]

\* C3: a read whose header fails to decode writes no response and leaves the
\* task reading the next frame of the same connection.
C3_DecodeErrorKeepsTask ==
    [][\A c \in Conns :
          (/\ Len(log'[c]) > Len(log[c])
           /\ log'[c][Len(log'[c])].parse = "Err")
              => (tasks'[c].pc = "read" /\ outbox'[c] = outbox[c])]_vars

\* C6: on one connection the cycles are sequential: a task about to read has
\* written the response to every frame it read, a task about to write is one
\* response behind, and the i-th response written answers the i-th frame read,
\* whatever the other connections do.
C6_SequentialCycles ==
    \A c \in Conns :
        /\ tasks[c].pc = "read" => Len(outbox[c]) = Len(log[c])
        /\ tasks[c].pc = "write" => Len(outbox[c]) + 1 = Len(log[c])
        /\ Len(outbox[c]) <= Len(log[c])
        /\ \A i \in 1..Len(outbox[c]) :
               Len(log[c][i].chunk) >= 12
                   => Slice(outbox[c][i], 4, 8) = Slice(log[c][i].chunk, 8, 12)

\* one connection was answered twice, in the order of its two requests, while
\* the other connection was answered in between its reads
C6_Witness ==
    /\ Len(outbox["c1"]) = 2
    /\ log["c1"][1].chunk = Frame75 /\ log["c1"][2].chunk = Frame18
    /\ outbox["c1"][1] # outbox["c1"][2]
    /\ Len(outbox["c2"]) = 1
    /\ tasks["c1"].pc = "read" /\ tasks["c2"].pc = "read"

(***************************************************************************)
(* Specification of the compact-string codecs: CompactString::new is       *)
(* applied to a buffer and its result written back by encode_compact, or   *)
(* TopicStr::new is applied to the buffer.  A buffer is varint(len(s))     *)
(* followed by a text s and further bytes, or enumerated byte by byte.     *)
(***************************************************************************)
\* the NUL byte, "A", "B"
TextBytes == {0, 65, 66}

\* texts up to MaxFree bytes, a two-byte character, texts whose length
\* takes a two-byte varint
StringTexts ==
    SeqsUpTo(TextBytes, MaxFree)
        \cup {<<195, 169>>, <<65, 195, 169, 0>>, <<70, 111, 111>>,
              Repeat(65, 128), Repeat(66, 200) \o <<0>>}

StringTails == {<<>>, <<1>>, <<0, 0>>, <<1, 0, 0, 0, 0, 0>>, <<255, 128>>}

StringBytes == {0, 2, 3, 65, 128, 195, 255}

StringArgs ==
    {[kind |-> "text", text |-> t, tail |-> tl, buf |-> varint(Len(t)) \o t \o tl] :
        t \in StringTexts, tl \in StringTails}
    \cup
    {[kind |-> "buf", buf |-> b] : b \in SeqsUpTo(StringBytes, MaxFree + 1)}

InitString ==
    /\ overflow_checks \in BOOLEAN
    /\ pc = "init"
    /\ arg \in StringArgs
    /\ ret = None
    /\ file = None
    /\ tasks = Idle /\ inbox = Idle /\ outbox = Idle /\ log = Idle

CompactStringNew ==
    /\ pc = "init"
    /\ pc' = "string"
    /\ ret' = CompactString_new(arg.buf)
    /\ UNCHANGED <<overflow_checks, arg, file, tasks, inbox, outbox, log>>

\* encode_compact into an empty buffer, on a decoded CompactString
EncodeCompact ==
    /\ pc = "string"
    /\ ret.tag = "Ok"
    /\ pc' = "encoded"
    /\ ret' = [tag |-> "Ok", written |-> encode_compact(ret)]
    /\ UNCHANGED <<overflow_checks, arg, file, tasks, inbox, outbox, log>>

TopicStrNew ==
    /\ pc = "init"
    /\ pc' = "topic"
    /\ ret' = TopicStr_new(arg.buf, overflow_checks)
    /\ UNCHANGED <<overflow_checks, arg, file, tasks, inbox, outbox, log>>

NextString == CompactStringNew \/ EncodeCompact \/ TopicStrNew

SpecString == InitString /\ [][NextString]_vars

\* C13: CompactString::new on varint(len(s)) ++ s, followed by any bytes,
\* yields the text s, size len(s), and size_len_bytes equal to the number of
\* bytes decoded: the length of the varint prefix plus len(s).
C13_CompactStringDecodes ==
    (pc = "string" /\ arg.kind = "text") =>
        /\ ret.tag = "Ok"
        /\ ret.value = arg.text
        /\ ret.size = NatToBits(Len(arg.text))
        /\ ret.size_len_bytes = Len(varint(Len(arg.text))) + Len(arg.text)
        /\ ret.size_len_bytes = Len(arg.buf) - Len(arg.tail)

\* a text of 201 bytes behind a two-byte prefix, followed by further bytes
C13_Witness ==
    /\ pc = "string" /\ arg.kind = "text"
    /\ Len(arg.text) = 201 /\ Len(varint(201)) = 2
    /\ arg.tail = <<1, 0, 0, 0, 0, 0>>
    /\ ret.tag = "Ok" /\ ret.size_len_bytes = 203

\* C14: CompactString::new returns InvalidLengthPrefix exactly when the
\* varint prefix decodes and its value exceeds the number of bytes that
\* remain after the prefix; it never reads outside the buffer, and an error
\* comes without a string.
C14_InvalidLengthPrefix ==
    pc = "string" =>
        LET v == decode_varint(arg.buf)
        IN  /\ ret.tag \in {"Ok", "Err"}
            /\ (ret = Err("InvalidLengthPrefix")) <=>
                   (v.tag = "Ok" /\ U64Gt(v.value, Len(arg.buf) - v.len))
            /\ ret.tag = "Err" => DOMAIN ret = {"tag", "err"}
            /\ ret.tag = "Ok" => v.len + Len(ret.value) <= Len(arg.buf)

\* a prefix of 3 with two bytes left, and a prefix of 2 with two bytes left
\* that are not UTF-8
C14_Witness ==
    /\ pc = "string" /\ arg.kind = "buf"
    /\ \/ arg.buf = <<3, 65, 65>> /\ ret = Err("InvalidLengthPrefix")
       \/ arg.buf = <<2, 255, 65>> /\ ret = Err("InvalidUtf8")

\* C15: encode_compact on the CompactString decoded from varint(len(s)) ++ s
\* writes varint(len(s)) ++ s.
C15_EncodeInvertsDecode ==
    (pc = "encoded" /\ arg.kind = "text") =>
        ret.written = varint(Len(arg.text)) \o arg.text

\* the text that remains when one trailing NUL byte is taken off
StripOneNul(text) ==
    IF text # <<>> /\ text[Len(text)] = 0 THEN SubSeq(text, 1, Len(text) - 1) ELSE text

\* C16: TopicStr::new strips exactly one trailing NUL byte from the decoded
\* text and subtracts one from size and from size_len_bytes, so that the
\* reported size is the length of the returned text.
C16_StripsOneNul ==
    (pc = "topic" /\ arg.kind = "text" /\ ret.tag = "Ok") =>
        /\ ret.value.value = StripOneNul(arg.text)
        /\ ret.value.size = NatToBits(Len(ret.value.value))
        /\ ret.value.size_len_bytes = Len(varint(Len(arg.text))) + Len(arg.text) - 1

\* C17: TopicStr::new on varint(n), n text bytes and a tag byte, with or
\* without further bytes, yields the text as the name, the byte after the
\* text as tag_buffer, and bytes_len = prefix length + n + 1.
C17_TopicStrFields ==
    (pc = "topic" /\ arg.kind = "text" /\ arg.tail # <<>>) =>
        /\ ret.tag = "Ok"
        /\ ret.value.value = arg.text
        /\ ret.tag_buffer = arg.tail[1]
        /\ ret.bytes_len = Len(varint(Len(arg.text))) + Len(arg.text) + 1

(***************************************************************************)
(* Specification of the request header codecs: NullableString::new is      *)
(* applied to a buffer, an index and a declared length, or RequestBase::new *)
(* is applied to a buffer.                                                 *)
(***************************************************************************)
\* declared lengths: the i16 extremes, negative lengths on both sides of
\* -14 (where 14 + (length - 1) wraps around in a usize), null, empty, short
NsLengths == {-32768, -16, -15, -14, -13, -3, -2, -1, 0, 1, 2, 3, 5, 32767}

\* "", "A", "AB", a two-byte character, "Hello"
NsTexts == {<<>>, <<65>>, <<65, 66>>, <<195, 169>>, <<72, 101, 108, 108, 111>>}

\* what precedes the string in the buffer: nothing, an i16, a request header
NsLeads == {<<>>, <<0, 5>>, Header(18, 1, <<0, 0, 0, 5>>, <<>>)}

NsTails == {<<>>, <<0, 0>>, <<255>>}

\* the largest client id whose header does not overflow base_size, and the
\* smallest that does
LongIds == {Repeat(65, 32753), Repeat(65, 32754)}

HeaderBuffers ==
    CycleBuffers
        \cup {Header(k, 1, c, I16ToBe(Len(t)) \o t) \o tl :
                 k \in ApiKeys, c \in CorrelationIds, t \in NsTexts, tl \in NsTails}
        \cup {Header(18, 1, <<0, 0, 0, 5>>, I16ToBe(l)) \o tl :
                 l \in NsLengths, tl \in NsTails \cup NsTexts}
        \cup {Header(18, 1, <<0, 0, 0, 5>>, I16ToBe(Len(t)) \o t) : t \in LongIds}

HeaderArgs ==
    {[kind |-> "placed", buf |-> ld \o t \o tl, idx |-> Len(ld), length |-> Len(t),
      text |-> t] :
        ld \in NsLeads, t \in NsTexts, tl \in NsTails}
    \cup
    {[kind |-> "any", buf |-> b, idx |-> i, length |-> l] :
        b \in SeqsUpTo({65, 255}, MaxFree) \cup NsLeads, i \in 0..(MaxFree + 1) \cup {14},
        l \in NsLengths}
    \cup
    {[kind |-> "header", buf |-> b] : b \in HeaderBuffers}

InitHeader ==
    /\ overflow_checks \in BOOLEAN
    /\ pc = "init"
    /\ arg \in HeaderArgs
    /\ ret = None
    /\ file = None
    /\ tasks = Idle /\ inbox = Idle /\ outbox = Idle /\ log = Idle

NullableStringNew ==
    /\ pc = "init"
    /\ arg.kind \in {"placed", "any"}
    /\ pc' = "nullable"
    /\ ret' = NullableString_new(arg.buf, arg.idx, arg.length, overflow_checks)
    /\ UNCHANGED <<overflow_checks, arg, file, tasks, inbox, outbox, log>>

NextHeader == NullableStringNew \/ RequestBaseNew

SpecHeader == InitHeader /\ [][NextHeader]_vars

\* C18: for a valid UTF-8 string s, the empty string included, placed at idx
\* in a buffer that holds it, NullableString::new(buf, idx, len(s)) yields
\* (s, len(s)); and a declared length of -1 yields ("", 0) for every buffer
\* and every idx.
C18_NullableStringDecodes ==
    pc = "nullable" =>
        /\ arg.kind = "placed" =>
               ret = [tag |-> "Ok", value |-> arg.text, length |-> Len(arg.text)]
        /\ arg.length = -1 => ret = [tag |-> "Ok", value |-> <<>>, length |-> 0]

\* the declared length of the client id of a buffer of 14 bytes or more
ClientIdSize(buf) == I16FromBe(Slice(buf, 12, 14))

\* C19: a declared length that is negative and not -1, or that reaches past
\* the end of the buffer, makes NullableString::new, and RequestBase::new for
\* the client id at offset 12, return a decode error: no string, no fault.
C19_BadLengthIsError ==
    /\ pc = "nullable" =>
           ((arg.length < -1 \/ arg.idx + arg.length > Len(arg.buf)) =>
                ret.tag = "Err")
    /\ (pc = "parsed" /\ Len(arg.buf) >= 14) =>
           ((ClientIdSize(arg.buf) < -1 \/ 14 + ClientIdSize(arg.buf) > Len(arg.buf)) =>
                ret.tag = "Err")

\* C20: when RequestBase::new succeeds, size, api_key, api_version and
\* correlation_id are the big-endian values at offsets 0, 4, 6 and 8,
\* client_id is the bytes 14..14+L for the i16 L at offset 12 (empty when L
\* is -1), and base_size is 14 plus the reported length of the client id and
\* no more than the length of the buffer.
C20_HeaderFields ==
    (pc = "parsed" /\ ret.tag = "Ok") =>
        LET L == ClientIdSize(arg.buf)
        IN  /\ ret.size = I32FromBe(Slice(arg.buf, 0, 4))
            /\ ret.api_key = I16FromBe(Slice(arg.buf, 4, 6))
            /\ ret.api_version = I16FromBe(Slice(arg.buf, 6, 8))
            /\ ret.correlation_id = I32FromBe(Slice(arg.buf, 8, 12))
            /\ ret.client_id.value = (IF L = -1 THEN <<>> ELSE Slice(arg.buf, 14, 14 + L))
            /\ ret.base_size = 14 + ret.client_id.length
            /\ ret.base_size <= Len(arg.buf)

\* C21: RequestBase::new returns InvalidBufLength for every buffer shorter
\* than 14 bytes, and when the string decoder returns an error for the client
\* id it returns that error; no RequestBase is produced in either case.
C21_HeaderErrors ==
    pc = "parsed" =>
        /\ Len(arg.buf) < 14 => ret = Err("InvalidBufLength")
        /\ (Len(arg.buf) >= 14 /\ ClientIdSize(arg.buf) # -1) =>
               LET decoded == NullableString_new(arg.buf, 14, ClientIdSize(arg.buf),
                                                 overflow_checks)
               IN  decoded.tag = "Err" => ret = decoded

(***************************************************************************)
(* Specification of the two codecs behind the dispatcher: on one           *)
(* connection, requests with a well-formed header are parsed and handed to *)
(* dispatch_request one after the other; supported_versions.json may be    *)
(* replaced between two requests.  log keeps, for each earlier request of  *)
(* the connection, its api_key, whether the table was readable and whether *)
(* a response was written.                                                 *)
(***************************************************************************)
\* requests handled on one connection
MaxRequests == 2

\* a table of n rows: key i supports the versions 0..i
LongTable(n) == [tag |-> "Table", rows |-> [i \in 1..n |-> Row(i, 0, i)]]

\* the file is missing, empty, not JSON, or a table: no row, key 18 only,
\* two ranges for key 18, the table of test_version_supported (no key 18),
\* and the longest tables whose count fits and does not fit an i8
CodecFiles ==
    {[tag |-> "Missing"], [tag |-> "Empty"], [tag |-> "Invalid"],
     [tag |-> "Table", rows |-> <<>>],
     [tag |-> "Table", rows |-> <<Row(18, 0, 4)>>],
     [tag |-> "Table", rows |-> <<Row(18, 3, 4), Row(75, 0, 0), Row(18, 0, 1)>>],
     [tag |-> "Table", rows |-> <<Row(1, 1, 5), Row(2, 3, 7)>>],
     LongTable(126), LongTable(127)}

CodecVersions == {-1, 0, 2, 4, 5}

\* the correlation id sent with a version: one id for the even versions,
\* another for the odd ones
CorrelationIdOf(v) == IF v % 2 = 0 THEN <<0, 0, 0, 7>> ELSE <<255, 1, 2, 254>>

\* the payloads of the topic names of a request: none, "A" or "BC" with its
\* NUL byte, "A" with two, and two names in either order
TopicPayloads ==
    {<<>>, <<<<65, 0>>>>, <<<<66, 67, 0>>>>, <<<<65, 0, 0>>>>,
     <<<<65, 0>>, <<66, 67, 0>>>>, <<<<66, 67, 0>>, <<65, 0, 0>>>>}

\* a topic-partition description body: tag buffer, the topic names, the
\* partition limit, cursor and tag buffer
DescribeBodyOf(payloads) ==
    <<0>> \o ArrayWire("CompactString", payloads) \o <<0, 0, 0, 1>> \o <<255, 0>>

CodecBuffers ==
    {Header(18, v, CorrelationIdOf(v), <<255, 255>>) \o ApiBody : v \in CodecVersions}
    \cup
    {Header(75, 0, <<0, 0, 0, 7>>, <<255, 255>>) \o DescribeBodyOf(ps) :
        ps \in TopicPayloads}

InitCodec ==
    /\ overflow_checks \in BOOLEAN
    /\ pc = "init"
    /\ arg \in [buf : CodecBuffers, sock_ok : BOOLEAN]
    /\ ret = None
    /\ file \in CodecFiles
    /\ log = <<>>
    /\ tasks = Idle /\ inbox = Idle /\ outbox = Idle

\* the cycle of a request has returned; the task takes the next request of
\* the connection, and the file may have been replaced meanwhile
NextRequest ==
    /\ pc = "dispatched"
    /\ ret.out.fault = "none"
    /\ Len(log) + 1 < MaxRequests
    /\ log' = Append(log, [api_key |-> ret.req.api_key,
                           readable |-> file.tag = "Table",
                           answered |-> ret.out.written # <<>>])
    /\ pc' = "init"
    /\ ret' = None
    /\ arg' \in [buf : CodecBuffers, sock_ok : BOOLEAN]
    /\ file' \in CodecFiles
    /\ UNCHANGED <<overflow_checks, tasks, inbox, outbox>>

NextCodec == RequestBaseNew \/ DispatchRequest \/ NextRequest

SpecCodec == InitCodec /\ [][NextCodec]_vars

\* the table has a row for key whose range holds version
InRange(rows, key, version) ==
    \E i \in 1..Len(rows) :
        rows[i].key = key /\ rows[i].min <= version /\ version <= rows[i].max

\* C22: the error code of a capability-negotiation response is 0 exactly when
\* the table has an entry for the request's api_key whose inclusive range
\* min..max holds the request's version, and 35 otherwise; is_version_supported
\* returns true in exactly that case.
C22_ErrorCode ==
    /\ (pc = "dispatched" /\ ret.req.api_key = 18 /\ ret.out.written # <<>>) =>
           LET code == I16FromBe(Slice(ret.out.written[1], 8, 10))
               hit == InRange(file.rows, ret.req.api_key, ret.req.api_version)
           IN  /\ hit => code = 0
               /\ ~hit => code = 35
    /\ file.tag = "Table" =>
           \A key \in {1, 2, 18, 75}, version \in -1..8 :
               is_version_supported(file, key, version) =
                   [tag |-> "Ok", value |-> InRange(file.rows, key, version)]

\* version 4 of key 18 against the range 3..4, and version 2 against the
\* ranges 3..4 and 0..1
C22_Witness ==
    /\ pc = "dispatched" /\ ret.req.api_key = 18 /\ ret.out.written # <<>>
    /\ file.rows = <<Row(18, 3, 4), Row(75, 0, 0), Row(18, 0, 1)>>
    /\ \/ ret.req.api_version = 4 /\ Slice(ret.out.written[1], 8, 10) = <<0, 0>>
       \/ ret.req.api_version = 2 /\ Slice(ret.out.written[1], 8, 10) = <<0, 35>>

\* C23: for a table of n entries the capability-negotiation response is the
\* frame size, the correlation id, the error code, one byte n + 1, the n
\* entries in table order as key, min, max (big-endian i16) and a zero tag
\* byte, a 4-byte zero throttle and a zero tag byte; the whole table is there
\* whether the error code is 0 or 35.  The response is written whenever the
\* table is readable, n + 1 fits the i8 of the count and the socket accepts
\* the bytes, and every response written has this layout.
C23_ResponseLayout ==
    (pc = "dispatched" /\ ret.req.api_key = 18) =>
        /\ (file.tag = "Table" /\ Len(file.rows) + 1 <= 127 /\ arg.sock_ok) =>
               ret.out.written # <<>>
        /\ ret.out.written # <<>> =>
               LET w == ret.out.written[1]
                   n == Len(file.rows)
               IN  /\ Len(w) = 16 + 7 * n
                   /\ Slice(w, 0, 4) = I32ToBe(12 + 7 * n)
                   /\ Slice(w, 4, 8) = Slice(arg.buf, 8, 12)
                   /\ Slice(w, 8, 10) \in {<<0, 0>>, <<0, 35>>}
                   /\ w[11] = n + 1
                   /\ \A i \in 1..n :
                          Slice(w, 11 + 7 * (i - 1), 11 + 7 * i) =
                              I16ToBe(file.rows[i].key) \o I16ToBe(file.rows[i].min)
                                  \o I16ToBe(file.rows[i].max) \o <<0>>
                   /\ Slice(w, 11 + 7 * n, 16 + 7 * n) = <<0, 0, 0, 0, 0>>

\* a table of three entries sent with error code 35, and the table of 126
\* entries sent with error code 0
C23_Witness ==
    /\ pc = "dispatched" /\ ret.req.api_key = 18 /\ ret.out.written # <<>>
    /\ \/ /\ Len(file.rows) = 3
          /\ Slice(ret.out.written[1], 8, 11) = <<0, 35, 4>>
       \/ /\ Len(file.rows) = 126
          /\ Slice(ret.out.written[1], 8, 11) = <<0, 0, 127>>

\* a topic descriptor for a name, as the response is to hold it: error code
\* 3, the name behind the varint of its length plus plus_one, a zero topic
\* id, is_internal, the empty partitions array, the authorized operations and
\* a tag byte
Descriptor(name, plus_one) ==
    <<0, 3>> \o varint(Len(name) + plus_one) \o name \o Repeat(0, 16)
        \o <<0>> \o <<1>> \o <<0, 0, 13, 248>> \o <<0>>

RECURSIVE Descriptors(_, _)
Descriptors(names, plus_one) ==
    IF names = <<>> THEN <<>>
    ELSE Descriptor(Head(names), plus_one) \o Descriptors(Tail(names), plus_one)

\* the topic names DescribeTopicPartitions::new decodes from the request
RequestedNames(buf, base_size, oc) ==
    LET names(a) == [i \in 1..Len(a.elements) |-> a.elements[i].value.value]
    IN  names(CompactArray_new("TopicStr", SubSeqFrom(buf, base_size + 1), oc))

\* C24: the response to a topic-partition description request that decoded k
\* topic names holds, after the frame size, the correlation id and five zero
\* bytes, a count byte k + 1, then k topic descriptors in the order of the
\* requested names, each made of error code 3, the compact-encoded requested
\* name, 16 zero bytes, is_internal 0, the partitions byte 1, 0x00000df8 and a
\* zero tag byte, then the cursor byte 0xFF and a zero tag byte.  A name
\* counts as compact-encoded when it follows the varint of its length, or, in
\* every descriptor of the response, the varint of its length plus one.
C24_DescribeResponse ==
    (pc = "dispatched" /\ ret.req.api_key = 75 /\ ret.out.written # <<>>) =>
        \E plus_one \in {0, 1} :
            SubSeqFrom(ret.out.written[1], 13) =
                <<Len(RequestedNames(arg.buf, ret.req.base_size, overflow_checks)) + 1>>
                    \o Descriptors(RequestedNames(arg.buf, ret.req.base_size,
                                                  overflow_checks), plus_one)
                    \o <<255, 0>>

\* C25: when supported_versions.json is missing, empty or not valid JSON,
\* is_version_supported and the get_response of the capability negotiation
\* return an error and dispatch_request writes no byte for that request; a
\* later request of the connection, made when the table is readable, gets its
\* response: the frame for its own correlation id with error code 0 or 35.
C25_UnreadableTable ==
    /\ file.tag # "Table" =>
           \A key \in {1, 18, 75}, version \in -1..5 :
               is_version_supported(file, key, version).tag = "Err"
    /\ (pc = "dispatched" /\ ret.req.api_key = 18 /\ file.tag # "Table") =>
           /\ ApiVersion_get_response([base_request |-> ret.req], file,
                                      overflow_checks).tag = "Err"
           /\ ret.out.written = <<>>
           /\ ret.out.fault = "none"
    /\ (pc = "dispatched" /\ ret.req.api_key = 18 /\ file.tag = "Table"
            /\ Len(file.rows) + 1 <= 127 /\ arg.sock_ok) =>
           /\ Len(ret.out.written) = 1
           /\ Len(ret.out.written[1]) = 16 + 7 * Len(file.rows)
           /\ Slice(ret.out.written[1], 4, 8) = Slice(arg.buf, 8, 12)
           /\ Slice(ret.out.written[1], 8, 10) \in {<<0, 0>>, <<0, 35>>}

\* the first capability negotiation of the connection found no readable
\* table and got no response, the second one finds the table and is answered
C25_Witness ==
    /\ Len(log) = 1
    /\ log[1] = [api_key |-> 18, readable |-> FALSE, answered |-> FALSE]
    /\ pc = "dispatched" /\ ret.req.api_key = 18
    /\ file.tag = "Table"
    /\ Len(ret.out.written) = 1

\* the bit positions of the sum over i < n of (data[i] mod 128) * 128^i: bit j
\* of byte i stands at position 7 * i + j, and no two bytes share a position
ExactBits(data, n) ==
    {p \in 0..(7 * n - 1) : p % 7 \in NatToBits(data[(p \div 7) + 1] % 128)}

\* C26: whenever decode_varint returns Ok((v, n)), v is the sum over i < n of
\* (byte_i mod 128) * 128^i with no bit lost; a buffer whose first nine bytes
\* have the high bit set and whose tenth byte has it clear and carries a data
\* bit above its lowest one is rejected with InvalidVarint.
C26_NoBitLost ==
    (pc = "decoded" /\ arg.kind = "buf") =>
        /\ ret.res.tag = "Ok" => ret.res.value = ExactBits(arg.buf, ret.res.len)
        /\ (/\ Len(arg.buf) >= 10
            /\ \A j \in 1..9 : HighBit(arg.buf[j])
            /\ ~HighBit(arg.buf[10])
            /\ arg.buf[10] >= 2) => ret.res = Err("InvalidVarint")

\* C28: for every buffer, the number of elements CompactArray::new returns
\* does not exceed the value of the varint prefix; with a prefix of 0 the call
\* returns an empty array that consumes the prefix bytes only, or an error:
\* the count minus one does not wrap around and does not stop the call.
C28_CountBounded ==
    (pc = "done" /\ decode_varint(arg.buf).tag = "Ok") =>
        /\ (ret.tag = "Ok" /\ decode_varint(arg.buf).value \subseteq 0..29) =>
               Len(ret.elements) <= BitsToNat(decode_varint(arg.buf).value, 30)
        /\ decode_varint(arg.buf).value = {} =>
               /\ ret.tag \in {"Ok", "Err"}
               /\ ret.tag = "Ok" =>
                      /\ ret.elements = <<>>
                      /\ ret.consumed = decode_varint(arg.buf).len

\* C27: in the per-connection loop the outcome for a frame, i.e. whether its
\* header is parsed or rejected and the response bytes, depends on the bytes
\* of that frame's read only: two reads of the same frame, after different
\* earlier frames of their connections, have the same outcome, and a frame of
\* fewer than 14 bytes is rejected whatever preceded it.
C27_OutcomeOfFrameOnly ==
    \A c \in Conns : \A i \in 1..Len(log[c]) :
        /\ \A d \in Conns : \A j \in 1..Len(log[d]) :
               log[c][i].chunk = log[d][j].chunk =>
                   /\ log[c][i].parse = log[d][j].parse
                   /\ (i <= Len(outbox[c]) /\ j <= Len(outbox[d])) =>
                          outbox[c][i] = outbox[d][j]
        /\ (log[c][i].chunk # Eof /\ Len(log[c][i].chunk) < 14) =>
               log[c][i].parse = "Err"

====
